---- MODULE Spec2Model ----
(***************************************************************************)
(* Model of the nih-plug bundler (xtask/src/main.rs) and of the wrapper's  *)
(* strlcpy helper (src/wrapper/util.rs).                                   *)
(*                                                                         *)
(* Paths are sequences of path components, so Path::join is \o and         *)
(* Path::parent drops the last component.  A String with '/' separators    *)
(* built by format! is written as the sequence of its components; package  *)
(* and bundle names are single components.                                 *)
(***************************************************************************)
EXTENDS Integers, Sequences, FiniteSets, TLC

(* ------------------------------ bounds --------------------------------- *)
MaxPackages == 2
MaxInvocations == 2
MaxDest == 3
MaxSrc == 3

(* --------------------------- option / result --------------------------- *)
None == [some |-> FALSE, v |-> ""]
Some(x) == [some |-> TRUE, v |-> x]

Parent(path) == SubSeq(path, 1, Len(path) - 1)
FileName(path) == path[Len(path)]
Prefixes(path) == {SubSeq(path, 1, n) : n \in 1..Len(path)}
Min(a, b) == IF a <= b THEN a ELSE b

(* ------------------------------ constants ------------------------------ *)
BUNDLE_HOME == <<"target", "bundled">>

CompilationTarget == {"Linux64", "Linux32", "Mac64", "Windows64", "Windows32"}

(* ----------------------- universe of the inputs ------------------------ *)
PackageNames == {"foo", "bar"}

TripleUniverse ==
    {"x86_64-unknown-linux-gnu", "x86_64-apple-darwin", "x86_64-pc-windows-gnu",
     "riscv64-unknown-linux-gnu", "i686-pc-windows-gnu", "x86_64-pc-windows-msvc",
     "aarch64-apple-darwin", ""}

ArgLists ==
    {<< >>,
     <<"--release">>,
     <<"--target", "x86_64-unknown-linux-gnu">>,
     <<"--target", "x86_64-apple-darwin">>,
     <<"--target=x86_64-apple-darwin", "--release">>,
     <<"--target=x86_64-pc-windows-gnu">>,
     <<"--target", "riscv64-unknown-linux-gnu">>,
     <<"--release", "--target">>,
     <<"--target=x86_64-apple-darwin", "--target", "x86_64-unknown-linux-gnu">>}

PackageLists == UNION {[1..n -> PackageNames] : n \in 1..MaxPackages}

NoTable == [p \in {} |-> None]
Configs ==
    {[exists |-> FALSE, parses |-> FALSE, table |-> NoTable],
     [exists |-> TRUE, parses |-> FALSE, table |-> NoTable],
     [exists |-> TRUE, parses |-> TRUE, table |-> NoTable],
     [exists |-> TRUE, parses |-> TRUE, table |-> [p \in {"foo"} |-> None]],
     [exists |-> TRUE, parses |-> TRUE, table |-> [p \in {"foo"} |-> Some("Baz")]],
     [exists |-> TRUE, parses |-> TRUE,
      table |-> [p \in {"foo", "bar"} |-> IF p = "foo" THEN Some("bar") ELSE None]]}

Outcomes == {"buildfail", "nolib", "garbage", "plain", "vst3"}

VARIABLES
    packages, other_args, host, config, outcome,
    inv, idx, pc, exit, started,
    bundle_name, is_release_build, cross_compile_target, target, lib_path,
    bundle_vst3, vst3_lib_path, result, steps,
    dirs, files, dirs0, files0, prev,
    q_triple, q_host, q_name, q_pc, q_ct, q_base, q_path, q_basename,
    dest, src, dest0, panicked, s_pc

envVars == <<packages, other_args, host, config, outcome>>
mainVars == <<inv, idx, pc, exit, started>>
localVars == <<bundle_name, is_release_build, cross_compile_target, target, lib_path,
               bundle_vst3, vst3_lib_path, result, steps>>
fsVars == <<dirs, files, dirs0, files0, prev>>
planVars == <<q_triple, q_host, q_name, q_pc, q_ct, q_base, q_path, q_basename>>
strVars == <<dest, src, dest0, panicked, s_pc>>
vars == <<envVars, mainVars, localVars, fsVars, planVars, strVars>>

(* ------------------------- pure functions ------------------------------ *)
(* Result of a fallible function: ok, and the value or the error message.  *)
Ok(x) == [ok |-> TRUE, v |-> x]
Err(m) == [ok |-> FALSE, v |-> m]

(* compilation_target(): an explicit triple is matched against three       *)
(* literals; None yields the target the xtask binary was compiled for.     *)
compilation_target_FallsBackToHost(cross, native) ==
    IF cross.some
    THEN CASE cross.v = "x86_64-unknown-linux-gnu" -> Ok("Linux64")
           [] cross.v = "x86_64-apple-darwin" -> Ok("Mac64")
           [] cross.v = "x86_64-pc-windows-gnu" -> Ok("Windows64")
           [] OTHER -> Ok(native)
    ELSE Ok(native)

compilation_target(cross, native) ==
    IF cross.some
    THEN CASE cross.v = "x86_64-unknown-linux-gnu" -> Ok("Linux64")
           [] cross.v = "x86_64-apple-darwin" -> Ok("Mac64")
           [] cross.v = "x86_64-pc-windows-gnu" -> Ok("Windows64")
           [] OTHER -> Err("Unhandled cross-compilation target")
    ELSE Ok(native)

target_base(cross) ==
    IF cross.some
    THEN CASE cross.v = "x86_64-unknown-linux-gnu" -> Ok(<<"target", "x86_64-unknown-linux-gnu">>)
           [] cross.v = "x86_64-pc-windows-gnu" -> Ok(<<"target", "x86_64-pc-windows-gnu">>)
           [] cross.v = "x86_64-apple-darwin" -> Ok(<<"target", "x86_64-apple-darwin">>)
           [] OTHER -> Err("Unhandled cross-compilation target")
    ELSE Ok(<<"target">>)

library_basename(package, t) ==
    CASE t \in {"Linux64", "Linux32"} -> "lib" \o package \o ".so"
      [] t = "Mac64" -> "lib" \o package \o ".dylib"
      [] t \in {"Windows64", "Windows32"} -> package \o ".dll"

vst3_bundle_library_name_SharedLinuxDir(package, t) ==
    CASE t = "Linux64" -> <<package \o ".vst3", "Contents", "x86_64-linux", package \o ".so">>
      [] t = "Linux32" -> <<package \o ".vst3", "Contents", "x86_64-linux", package \o ".so">>
      [] t = "Mac64" -> <<package \o ".vst3", "Contents", "MacOS", package>>
      [] t = "Windows64" -> <<package \o ".vst3", "Contents", "x86_64-win", package \o ".vst3">>
      [] t = "Windows32" -> <<package \o ".vst3", "Contents", "x86-win", package \o ".vst3">>

vst3_bundle_library_name_KeepsArtifactName(package, t) ==
    CASE t = "Linux64" -> <<package \o ".vst3", "Contents", "x86_64-linux", package \o ".so">>
      [] t = "Linux32" -> <<package \o ".vst3", "Contents", "i386-linux", package \o ".so">>
      [] t = "Mac64" -> <<package \o ".vst3", "Contents", "MacOS", package \o ".dylib">>
      [] t = "Windows64" -> <<package \o ".vst3", "Contents", "x86_64-win", package \o ".vst3">>
      [] t = "Windows32" -> <<package \o ".vst3", "Contents", "x86-win", package \o ".vst3">>

vst3_bundle_library_name(package, t) ==
    CASE t = "Linux64" -> <<package \o ".vst3", "Contents", "x86_64-linux", package \o ".so">>
      [] t = "Linux32" -> <<package \o ".vst3", "Contents", "i386-linux", package \o ".so">>
      [] t = "Mac64" -> <<package \o ".vst3", "Contents", "MacOS", package>>
      [] t = "Windows64" -> <<package \o ".vst3", "Contents", "x86_64-win", package \o ".vst3">>
      [] t = "Windows32" -> <<package \o ".vst3", "Contents", "x86-win", package \o ".vst3">>

(* load_bundler_config(): Ok(None) when bundler.toml does not exist, an    *)
(* error when it exists and does not parse, Ok(Some(table)) otherwise.     *)
load_bundler_config(cfg) ==
    IF ~cfg.exists THEN [ok |-> TRUE, some |-> FALSE, table |-> NoTable]
    ELSE IF ~cfg.parses THEN [ok |-> FALSE, some |-> FALSE, table |-> NoTable]
    ELSE [ok |-> TRUE, some |-> TRUE, table |-> cfg.table]

(* The match at the head of bundle(): the configured name when the loaded  *)
(* config has an entry for the package carrying a name, else the package.  *)
select_bundle_name_IgnoresConfig(loaded, package) == package

select_bundle_name(loaded, package) ==
    IF loaded.some /\ package \in DOMAIN loaded.table /\ loaded.table[package].some
    THEN loaded.table[package].v
    ELSE package

(* The flag loop of bundle(): indices are visited from the last to the     *)
(* first, so the assignment made at the lowest index is the one that stays.*)
TargetEqValue(arg) ==
    IF \E t \in TripleUniverse : arg = "--target=" \o t
    THEN Some(CHOOSE t \in TripleUniverse : arg = "--target=" \o t)
    ELSE None

RECURSIVE parse_flags(_, _, _)
parse_flags(args, arg_idx, st) ==
    IF arg_idx < 1 THEN st
    ELSE LET arg == args[arg_idx] IN
         IF arg = "--release"
         THEN parse_flags(args, arg_idx - 1, [st EXCEPT !.is_release_build = TRUE])
         ELSE IF arg = "--target"
         THEN IF arg_idx + 1 <= Len(args)
              THEN parse_flags(args, arg_idx - 1,
                               [st EXCEPT !.cross_compile_target = Some(args[arg_idx + 1])])
              ELSE [st EXCEPT !.ok = FALSE]
         ELSE IF TargetEqValue(arg).some
         THEN parse_flags(args, arg_idx - 1,
                          [st EXCEPT !.cross_compile_target = TargetEqValue(arg)])
         ELSE parse_flags(args, arg_idx - 1, st)

(* ----------------------------- filesystem ------------------------------ *)
(* dirs: the directories that exist; files: path -> content.               *)
FileSet(fs, path, content) ==
    [q \in (DOMAIN fs) \cup {path} |-> IF q = path THEN content ELSE fs[q]]

(* fs::create_dir_all: creates the directory and every missing ancestor;   *)
(* an existing directory is accepted, an existing file in the way is not.  *)
create_dir_all(ds, fs, path) ==
    IF \E q \in Prefixes(path) : q \in DOMAIN fs
    THEN [ok |-> FALSE, dirs |-> ds]
    ELSE [ok |-> TRUE, dirs |-> ds \cup Prefixes(path)]

(* fs::write: creates or truncates the file; the parent must exist.        *)
fs_write(ds, fs, path, content) ==
    IF Parent(path) \notin ds \/ path \in ds
    THEN [ok |-> FALSE, files |-> fs]
    ELSE [ok |-> TRUE, files |-> FileSet(fs, path, content)]

(* reflink::reflink_or_copy: a reflink is tried first and fails when the   *)
(* destination exists; fs::copy is the fallback and overwrites it.         *)
reflink_or_copy_NoFallback(ds, fs, content, to) ==
    IF Parent(to) \notin ds \/ to \in ds \/ to \in DOMAIN fs
    THEN [ok |-> FALSE, files |-> fs]
    ELSE [ok |-> TRUE, files |-> FileSet(fs, to, content)]

reflink_or_copy(ds, fs, content, to) ==
    IF Parent(to) \notin ds \/ to \in ds
    THEN [ok |-> FALSE, files |-> fs]
    ELSE [ok |-> TRUE, files |-> FileSet(fs, to, content)]

PkgInfoContent == <<"BNDL????">>
InfoPlistContent(package) ==
    <<"plist", package, "com.nih-plug." \o package, package, package>>

(* -------------------- the build tool and its output -------------------- *)
(* cargo build: exit status, and the cdylib found in the target directory  *)
(* for every target it was asked to build.  A failed build leaves the      *)
(* library of an earlier successful build in place.                        *)
CargoStatus(package) == outcome[package] # "buildfail"

CargoProfile(args) == IF \E i \in 1..Len(args) : args[i] = "--release" THEN "release" ELSE "debug"

CargoTriples(args) ==
    {args[i + 1] : i \in {j \in 1..(Len(args) - 1) : args[j] = "--target"}}
    \cup {TargetEqValue(args[i]).v : i \in {j \in 1..Len(args) : TargetEqValue(args[j]).some}}

CargoLibName(package, os) ==
    CASE os = "linux" -> "lib" \o package \o ".so"
      [] os = "macos" -> "lib" \o package \o ".dylib"
      [] os = "windows" -> package \o ".dll"

TripleOs(t) ==
    CASE t \in {"x86_64-apple-darwin", "aarch64-apple-darwin"} -> "macos"
      [] t \in {"x86_64-pc-windows-gnu", "i686-pc-windows-gnu", "x86_64-pc-windows-msvc"} -> "windows"
      [] OTHER -> "linux"

HostOs(h) ==
    CASE h \in {"Linux64", "Linux32"} -> "linux"
      [] h = "Mac64" -> "macos"
      [] OTHER -> "windows"

CargoOutputs(package, args) ==
    IF outcome[package] = "nolib" THEN {}
    ELSE IF CargoTriples(args) = {}
    THEN {<<"target", CargoProfile(args), CargoLibName(package, HostOs(host))>>}
    ELSE {<<"target", t, CargoProfile(args), CargoLibName(package, TripleOs(t))>> :
            t \in CargoTriples(args)}

(* Path::exists on a build output, and the bytes found there.              *)
LibExists(path) == \E p \in PackageNames : path \in CargoOutputs(p, other_args)
LibContent(path) ==
    LET p == CHOOSE p \in PackageNames : path \in CargoOutputs(p, other_args)
    IN <<"lib", p, IF outcome[p] = "buildfail" THEN "vst3" ELSE outcome[p]>>

(* symbols::exported(path, "GetPluginFactory"): a parse error for bytes    *)
(* that are no ELF, Mach-O or PE image, otherwise whether the export table *)
(* names the symbol.                                                       *)
exported(content, symbol) ==
    IF content[3] = "garbage" THEN [ok |-> FALSE, v |-> FALSE]
    ELSE [ok |-> TRUE, v |-> (symbol = "GetPluginFactory" /\ content[3] = "vst3")]

(* ------------------- idle values of the other parts -------------------- *)
PlanIdle ==
    /\ q_triple = None /\ q_host = "Linux64" /\ q_name = "foo"
    /\ q_pc = "idle" /\ q_ct = Err("") /\ q_base = Err("") /\ q_path = << >> /\ q_basename = ""

StrIdle ==
    /\ dest = << >> /\ src = << >> /\ dest0 = << >> /\ panicked = FALSE /\ s_pc = "idle"

BundlerIdle ==
    /\ packages = <<"foo">> /\ other_args = << >> /\ host = "Linux64"
    /\ config = [exists |-> FALSE, parses |-> FALSE, table |-> NoTable]
    /\ outcome = [p \in PackageNames |-> "nolib"]
    /\ inv = 1 /\ idx = 1 /\ pc = "idle" /\ exit = "running" /\ started = {}
    /\ bundle_name = "" /\ is_release_build = FALSE /\ cross_compile_target = None
    /\ target = "" /\ lib_path = << >> /\ bundle_vst3 = "unset" /\ vst3_lib_path = << >>
    /\ result = "running" /\ steps = << >>
    /\ dirs = {} /\ files = << >> /\ dirs0 = {} /\ files0 = << >>
    /\ prev = [set |-> FALSE, package |-> "", result |-> "", dirs |-> {}, files |-> << >>]

(* ------------------------------ main() --------------------------------- *)
(* The state after command-line parsing: `packages` is the non-empty list  *)
(* collected from -p (or the single positional package), `other_args` the  *)
(* remaining arguments; the output tree starts empty.                      *)
Init ==
    /\ packages \in PackageLists
    /\ other_args \in ArgLists
    /\ host \in CompilationTarget
    /\ config \in Configs
    /\ outcome \in [PackageNames -> Outcomes]
    /\ inv = 1 /\ idx = 1 /\ pc = "main" /\ exit = "running" /\ started = {}
    /\ bundle_name = "" /\ is_release_build = FALSE /\ cross_compile_target = None
    /\ target = "" /\ lib_path = << >> /\ bundle_vst3 = "unset" /\ vst3_lib_path = << >>
    /\ result = "running" /\ steps = << >>
    /\ dirs = {} /\ files = << >> /\ dirs0 = {} /\ files0 = << >>
    /\ prev = [set |-> FALSE, package |-> "", result |-> "", dirs |-> {}, files |-> << >>]
    /\ PlanIdle /\ StrIdle

package == packages[idx]

(* A step of bundle() that returns early with an error (bail! or ?).       *)
Bail(msg) == result' = msg /\ pc' = "ret"

otherVars == <<envVars, planVars, strVars>>

(* main() calls bundle(&package, &other_args) for the package at idx.      *)
CallBundle ==
    /\ pc = "main" /\ idx <= Len(packages)
    /\ pc' = "config"
    /\ started' = started \cup {idx}
    /\ bundle_name' = "" /\ is_release_build' = FALSE /\ cross_compile_target' = None
    /\ target' = "" /\ lib_path' = << >> /\ bundle_vst3' = "unset" /\ vst3_lib_path' = << >>
    /\ result' = "running" /\ steps' = << >>
    /\ dirs0' = dirs /\ files0' = files
    /\ UNCHANGED <<inv, idx, exit, dirs, files, prev, otherVars>>

(* bundle(), the bundle name: load_bundler_config()? and the match on the  *)
(* package's entry.                                                        *)
LoadConfig ==
    /\ pc = "config"
    /\ steps' = Append(steps, "config")
    /\ LET loaded == load_bundler_config(config) IN
       IF ~loaded.ok
       THEN Bail("Could not parse 'bundler.toml'") /\ UNCHANGED bundle_name
       ELSE /\ bundle_name' = select_bundle_name(loaded, package)
            /\ pc' = "args" /\ UNCHANGED result
    /\ UNCHANGED <<inv, idx, exit, started, is_release_build, cross_compile_target, target,
                   lib_path, bundle_vst3, vst3_lib_path, fsVars, otherVars>>

(* bundle(), the loop over the pass-through flags.                         *)
ParseFlags ==
    /\ pc = "args"
    /\ steps' = Append(steps, "args")
    /\ LET st == parse_flags(other_args, Len(other_args),
                             [ok |-> TRUE, is_release_build |-> FALSE,
                              cross_compile_target |-> None]) IN
       IF ~st.ok
       THEN Bail("Missing cross-compile target")
            /\ UNCHANGED <<is_release_build, cross_compile_target>>
       ELSE /\ is_release_build' = st.is_release_build
            /\ cross_compile_target' = st.cross_compile_target
            /\ pc' = "build" /\ UNCHANGED result
    /\ UNCHANGED <<inv, idx, exit, started, bundle_name, target,
                   lib_path, bundle_vst3, vst3_lib_path, fsVars, otherVars>>

(* bundle(), `cargo build -p <package> <args>` and its exit status.        *)
CargoBuild_IgnoresStatus ==
    /\ pc = "build"
    /\ steps' = Append(steps, "build")
    /\ pc' = "target" /\ UNCHANGED result
    /\ UNCHANGED <<inv, idx, exit, started, bundle_name, is_release_build,
                   cross_compile_target, target, lib_path, bundle_vst3, vst3_lib_path,
                   fsVars, otherVars>>

CargoBuild ==
    /\ pc = "build"
    /\ steps' = Append(steps, "build")
    /\ IF ~CargoStatus(package)
       THEN Bail("Could not build")
       ELSE pc' = "target" /\ UNCHANGED result
    /\ UNCHANGED <<inv, idx, exit, started, bundle_name, is_release_build,
                   cross_compile_target, target, lib_path, bundle_vst3, vst3_lib_path,
                   fsVars, otherVars>>

(* bundle(), compilation_target(cross_compile_target.as_deref())?          *)
ResolveTarget ==
    /\ pc = "target"
    /\ steps' = Append(steps, "resolve")
    /\ LET r == compilation_target(cross_compile_target, host) IN
       IF ~r.ok
       THEN Bail(r.v) /\ UNCHANGED target
       ELSE target' = r.v /\ pc' = "locate" /\ UNCHANGED result
    /\ UNCHANGED <<inv, idx, exit, started, bundle_name, is_release_build,
                   cross_compile_target, lib_path, bundle_vst3, vst3_lib_path,
                   fsVars, otherVars>>

(* bundle(), lib_path and the check that it exists.                        *)
LocateArtifact ==
    /\ pc = "locate"
    /\ steps' = Append(steps, "locate")
    /\ LET base == target_base(cross_compile_target) IN
       IF ~base.ok
       THEN Bail(base.v) /\ UNCHANGED lib_path
       ELSE /\ lib_path' = base.v
                           \o <<IF is_release_build THEN "release" ELSE "debug">>
                           \o <<library_basename(package, target)>>
            /\ IF ~LibExists(lib_path')
               THEN Bail("Could not find built library")
               ELSE pc' = "classify" /\ UNCHANGED result
    /\ UNCHANGED <<inv, idx, exit, started, bundle_name, is_release_build,
                   cross_compile_target, target, bundle_vst3, vst3_lib_path,
                   fsVars, otherVars>>

(* bundle(), symbols::exported(&lib_path, "GetPluginFactory") and the      *)
(* branch on bundle_vst3; the else branch only prints and returns Ok(()).  *)
ClassifyArtifact_BundlesAnyway ==
    /\ pc = "classify"
    /\ steps' = Append(steps, "classify")
    /\ LET r == exported(LibContent(lib_path), "GetPluginFactory") IN
       IF ~r.ok
       THEN Bail("Could not parse") /\ UNCHANGED <<bundle_vst3, vst3_lib_path>>
       ELSE /\ bundle_vst3' = IF r.v THEN "true" ELSE "false"
            /\ vst3_lib_path' = BUNDLE_HOME \o vst3_bundle_library_name(bundle_name, target)
            /\ pc' = "mkdir" /\ UNCHANGED result
    /\ UNCHANGED <<inv, idx, exit, started, bundle_name, is_release_build,
                   cross_compile_target, target, lib_path, fsVars, otherVars>>

ClassifyArtifact ==
    /\ pc = "classify"
    /\ steps' = Append(steps, "classify")
    /\ LET r == exported(LibContent(lib_path), "GetPluginFactory") IN
       IF ~r.ok
       THEN Bail("Could not parse") /\ UNCHANGED <<bundle_vst3, vst3_lib_path>>
       ELSE /\ bundle_vst3' = IF r.v THEN "true" ELSE "false"
            /\ IF r.v
               THEN /\ vst3_lib_path' =
                          BUNDLE_HOME \o vst3_bundle_library_name(bundle_name, target)
                    /\ pc' = "mkdir" /\ UNCHANGED result
               ELSE /\ result' = "ok" /\ pc' = "ret" /\ UNCHANGED vst3_lib_path
    /\ UNCHANGED <<inv, idx, exit, started, bundle_name, is_release_build,
                   cross_compile_target, target, lib_path, fsVars, otherVars>>

(* bundle(), fs::create_dir_all(vst3_lib_path.parent())                    *)
CreateDirs ==
    /\ pc = "mkdir"
    /\ steps' = Append(steps, "mkdir")
    /\ LET r == create_dir_all(dirs, files, Parent(vst3_lib_path)) IN
       /\ dirs' = r.dirs
       /\ IF ~r.ok
          THEN Bail("Could not create bundle directory")
          ELSE pc' = "place" /\ UNCHANGED result
    /\ UNCHANGED <<inv, idx, exit, started, bundle_name, is_release_build,
                   cross_compile_target, target, lib_path, bundle_vst3, vst3_lib_path,
                   files, dirs0, files0, prev, otherVars>>

(* bundle(), reflink::reflink_or_copy(&lib_path, &vst3_lib_path)           *)
PlaceArtifact ==
    /\ pc = "place"
    /\ steps' = Append(steps, "place")
    /\ LET r == reflink_or_copy(dirs, files, LibContent(lib_path), vst3_lib_path) IN
       /\ files' = r.files
       /\ IF ~r.ok
          THEN Bail("Could not copy library to bundle")
          ELSE pc' = "aux" /\ UNCHANGED result
    /\ UNCHANGED <<inv, idx, exit, started, bundle_name, is_release_build,
                   cross_compile_target, target, lib_path, bundle_vst3, vst3_lib_path,
                   dirs, dirs0, files0, prev, otherVars>>

(* maybe_create_macos_vst3_bundle(package, target): the two descriptor     *)
(* files, written for Mac64 only; the first failed write returns.          *)
maybe_create_macos_vst3_bundle(pkg, t, ds, fs) ==
    IF t # "Mac64" THEN [ok |-> TRUE, v |-> "", files |-> fs]
    ELSE LET contents == BUNDLE_HOME \o <<pkg \o ".vst3", "Contents">>
             w1 == fs_write(ds, fs, contents \o <<"PkgInfo">>, PkgInfoContent)
             w2 == fs_write(ds, w1.files, contents \o <<"Info.plist">>, InfoPlistContent(pkg))
         IN IF ~w1.ok THEN [ok |-> FALSE, v |-> "Could not create PkgInfo file", files |-> fs]
            ELSE IF ~w2.ok
            THEN [ok |-> FALSE, v |-> "Could not create Info.plist file", files |-> w1.files]
            ELSE [ok |-> TRUE, v |-> "", files |-> w2.files]

(* bundle(), maybe_create_macos_vst3_bundle(package, compilation_target)?  *)
(* and the final Ok(()).                                                   *)
EmitAuxFiles ==
    /\ pc = "aux"
    /\ steps' = Append(steps, "aux")
    /\ LET r == maybe_create_macos_vst3_bundle(package, target, dirs, files) IN
       /\ files' = r.files
       /\ result' = IF r.ok THEN "ok" ELSE r.v
       /\ pc' = "ret"
    /\ UNCHANGED <<inv, idx, exit, started, bundle_name, is_release_build,
                   cross_compile_target, target, lib_path, bundle_vst3, vst3_lib_path,
                   dirs, dirs0, files0, prev, otherVars>>

(* main(), the `?` on bundle()'s result and the loop over the packages:    *)
(* an error returns from main, Ok(()) moves on to the next package.        *)
LastRun == [set |-> TRUE, package |-> package, result |-> result, dirs |-> dirs, files |-> files]

BundleReturn_KeepsGoing ==
    /\ pc = "ret"
    /\ prev' = LastRun
    /\ IF idx < Len(packages)
       THEN /\ idx' = idx + 1 /\ pc' = "main"
            /\ exit' = IF result # "ok" THEN "failing" ELSE exit
       ELSE /\ exit' = IF result # "ok" \/ exit = "failing" THEN "err" ELSE "ok"
            /\ pc' = "exit" /\ UNCHANGED idx
    /\ UNCHANGED <<inv, started, localVars, dirs, files, dirs0, files0, otherVars>>

BundleReturn ==
    /\ pc = "ret"
    /\ prev' = LastRun
    /\ IF result # "ok"
       THEN exit' = "err" /\ pc' = "exit" /\ UNCHANGED idx
       ELSE IF idx < Len(packages)
       THEN idx' = idx + 1 /\ pc' = "main" /\ UNCHANGED exit
       ELSE exit' = "ok" /\ pc' = "exit" /\ UNCHANGED idx
    /\ UNCHANGED <<inv, started, localVars, dirs, files, dirs0, files0, otherVars>>

(* The operator runs the same command line again over the output tree the  *)
(* previous invocation left behind.                                        *)
Reinvoke ==
    /\ pc = "exit" /\ inv < MaxInvocations
    /\ inv' = inv + 1 /\ idx' = 1 /\ pc' = "main" /\ exit' = "running" /\ started' = {}
    /\ UNCHANGED <<localVars, fsVars, otherVars>>

Next ==
    \/ CallBundle
    \/ LoadConfig
    \/ ParseFlags
    \/ CargoBuild
    \/ ResolveTarget
    \/ LocateArtifact
    \/ ClassifyArtifact
    \/ CreateDirs
    \/ PlaceArtifact
    \/ EmitAuxFiles
    \/ BundleReturn
    \/ Reinvoke

Spec == Init /\ [][Next]_vars

(* ---------------- target resolution and bundle layout ------------------ *)
(* The resolver and the layout functions applied to every triple of the    *)
(* universe (or none), every native target and every bundle name.          *)
BundleNames == {"foo", "bar", "Baz"}

InitPlan ==
    /\ q_triple \in {None} \cup {Some(t) : t \in TripleUniverse}
    /\ q_host \in CompilationTarget
    /\ q_name \in BundleNames
    /\ q_pc = "in" /\ q_ct = Err("") /\ q_base = Err("") /\ q_path = << >> /\ q_basename = ""
    /\ BundlerIdle /\ StrIdle

Resolve ==
    /\ q_pc = "in"
    /\ q_ct' = compilation_target(q_triple, q_host)
    /\ q_base' = target_base(q_triple)
    /\ q_pc' = "resolved"
    /\ UNCHANGED <<q_triple, q_host, q_name, q_path, q_basename,
                   envVars, mainVars, localVars, fsVars, strVars>>

Plan ==
    /\ q_pc = "resolved" /\ q_ct.ok
    /\ q_path' = vst3_bundle_library_name(q_name, q_ct.v)
    /\ q_basename' = library_basename(q_name, q_ct.v)
    /\ q_pc' = "planned"
    /\ UNCHANGED <<q_triple, q_host, q_name, q_ct, q_base,
                   envVars, mainVars, localVars, fsVars, strVars>>

NextPlan ==
    \/ Resolve
    \/ Plan

SpecPlan == InitPlan /\ [][NextPlan]_vars

(* ------------------------------ strlcpy -------------------------------- *)
(* `src as *const [u8] as *const [i8]`: the same bits read as signed.      *)
AsSigned(b) == IF b >= 128 THEN b - 256 ELSE b

(* The slice operations of strlcpy for a given copy_len: a range or an     *)
(* index past the end of a slice panics instead of writing.  Sequences are *)
(* 1-based, so dest[copy_len] is element copy_len + 1.                     *)
CopyAndTerminate(d, s, copy_len) ==
    IF copy_len > Len(d) \/ copy_len > Len(s)
    THEN [dest |-> d, panicked |-> TRUE]
    ELSE LET d1 == [i \in 1..Len(d) |-> IF i <= copy_len THEN AsSigned(s[i]) ELSE d[i]] IN
         IF copy_len + 1 > Len(d)
         THEN [dest |-> d1, panicked |-> TRUE]
         ELSE [dest |-> [d1 EXCEPT ![copy_len + 1] = 0], panicked |-> FALSE]

strlcpy_NoRoomForTerminator(d, s) ==
    IF Len(d) = 0 THEN [dest |-> d, panicked |-> FALSE]
    ELSE CopyAndTerminate(d, s, Min(Len(d), Len(s)))

strlcpy(d, s) ==
    IF Len(d) = 0 THEN [dest |-> d, panicked |-> FALSE]
    ELSE CopyAndTerminate(d, s, Min(Len(d) - 1, Len(s)))

(* The bytes of a &str are valid UTF-8: 0xC3 opens a two-byte sequence     *)
(* that 0xA9 closes; 0x00 and 0x41 stand alone.                            *)
SrcBytes == {0, 65, 195, 169}
DestValues == {0, 88, -1}
ValidUtf8(s) ==
    \A i \in 1..Len(s) :
        /\ s[i] = 195 => (i < Len(s) /\ s[i + 1] = 169)
        /\ s[i] = 169 => (i > 1 /\ s[i - 1] = 195)

InitStr ==
    /\ dest \in UNION {[1..n -> DestValues] : n \in 0..MaxDest}
    /\ src \in {s \in UNION {[1..n -> SrcBytes] : n \in 0..MaxSrc} : ValidUtf8(s)}
    /\ dest0 = dest /\ panicked = FALSE /\ s_pc = "in"
    /\ BundlerIdle /\ PlanIdle

Strlcpy ==
    /\ s_pc = "in"
    /\ LET r == strlcpy(dest, src) IN dest' = r.dest /\ panicked' = r.panicked
    /\ s_pc' = "done"
    /\ UNCHANGED <<src, dest0, envVars, mainVars, localVars, fsVars, planVars>>

NextStr == Strlcpy

SpecStr == InitStr /\ [][NextStr]_vars

(* ============================ properties =============================== *)
Range(s) == {s[i] : i \in 1..Len(s)}
IsPrefix(a, b) == Len(a) <= Len(b) /\ a = SubSeq(b, 1, Len(a))
InBundle == pc \in {"args", "build", "target", "locate", "classify", "mkdir", "place", "aux", "ret"}
ConfigParseError == "Could not parse 'bundler.toml'"

(* C1 (as claimed): when the invocation has ended, every requested package *)
(* was started, also those after a package that failed, and the invocation *)
(* failed if the last package failed.                                      *)
C1_BestEffortBatch ==
    pc = "exit" => (started = 1..Len(packages) /\ (result # "ok" => exit = "err"))

(* C1 (amended): a failure while bundling package p_i ends the invocation  *)
(* at once with failure and no package after p_i is started; the           *)
(* invocation succeeds only when every package was started and succeeded.  *)
C1_AbortsOnFirstFailure ==
    pc = "exit" =>
        IF result # "ok"
        THEN exit = "err" /\ started = 1..idx
        ELSE exit = "ok" /\ idx = Len(packages) /\ started = 1..Len(packages)

C1_Witness == pc = "exit" /\ result # "ok" /\ idx < Len(packages) /\ exit = "err"

(* C2: when a VST3 bundle is created, for Mac64 PkgInfo (BNDL????) and     *)
(* Info.plist are in the Contents directory two levels above the library   *)
(* that was placed; for every other target the run writes neither file.    *)
C2_DescriptorsBesideLibrary ==
    (pc = "ret" /\ "aux" \in Range(steps)) =>
        LET contents == Parent(Parent(vst3_lib_path)) IN
        IF target = "Mac64"
        THEN /\ contents \o <<"PkgInfo">> \in DOMAIN files
             /\ files[contents \o <<"PkgInfo">>] = PkgInfoContent
             /\ contents \o <<"Info.plist">> \in DOMAIN files
        ELSE \A q \in DOMAIN files :
                 FileName(q) \in {"PkgInfo", "Info.plist"} =>
                     (q \in DOMAIN files0 /\ files[q] = files0[q])

(* C3: a run whose artifact parses and does not export GetPluginFactory    *)
(* returns success and leaves the output tree exactly as it found it.      *)
C3_NoMarkerNoBundle ==
    (pc = "ret" /\ "classify" \in Range(steps) /\ LibContent(lib_path)[3] = "plain") =>
        (result = "ok" /\ dirs = dirs0 /\ files = files0)

C3_Witness ==
    /\ pc = "ret" /\ "classify" \in Range(steps) /\ LibContent(lib_path)[3] = "plain"
    /\ result = "ok" /\ DOMAIN files0 # {}

(* C4: an explicit triple resolves exactly when it is one of the three     *)
(* recognized triples, each to its fixed target; any other triple is an    *)
(* error whatever the native target is; target_base accepts the same set.  *)
C4_ExplicitTriple ==
    (q_pc # "in" /\ q_pc # "idle" /\ q_triple.some) =>
        /\ q_ct.ok <=> q_triple.v \in {"x86_64-unknown-linux-gnu", "x86_64-apple-darwin",
                                       "x86_64-pc-windows-gnu"}
        /\ q_ct.ok =>
              q_ct.v = (CASE q_triple.v = "x86_64-unknown-linux-gnu" -> "Linux64"
                          [] q_triple.v = "x86_64-apple-darwin" -> "Mac64"
                          [] q_triple.v = "x86_64-pc-windows-gnu" -> "Windows64")
        /\ ~q_ct.ok => q_ct.v \notin CompilationTarget
        /\ q_base.ok <=> q_ct.ok
        /\ q_base.ok => q_base.v = <<"target", q_triple.v>>

C4_Witness ==
    q_pc = "resolved" /\ q_triple = Some("riscv64-unknown-linux-gnu") /\ ~q_ct.ok /\ ~q_base.ok

(* C5: the planned library path is <name>.vst3/Contents/<platform-dir>/    *)
(* <library file>, its third parent under the bundle home is the bundle    *)
(* root, the platform directory is the token of the target, and distinct   *)
(* targets have distinct tokens.                                           *)
PlatformDir(t) ==
    CASE t = "Linux64" -> "x86_64-linux"
      [] t = "Linux32" -> "i386-linux"
      [] t = "Mac64" -> "MacOS"
      [] t = "Windows64" -> "x86_64-win"
      [] t = "Windows32" -> "x86-win"

C5_LayoutShape ==
    q_pc = "planned" =>
        /\ Len(q_path) = 4
        /\ q_path[1] = q_name \o ".vst3"
        /\ q_path[2] = "Contents"
        /\ q_path[3] = PlatformDir(q_ct.v)
        /\ Parent(Parent(Parent(BUNDLE_HOME \o q_path))) = BUNDLE_HOME \o <<q_name \o ".vst3">>
        /\ \A t1, t2 \in CompilationTarget :
              t1 # t2 => vst3_bundle_library_name(q_name, t1)[3]
                           # vst3_bundle_library_name(q_name, t2)[3]

C5_Witness == q_pc = "planned" /\ q_ct.v = "Linux32" /\ q_path[3] = "i386-linux"

(* C6 (as claimed): on the Windows targets the library keeps the file name *)
(* extension of the build artifact (.dll), on every other target it is     *)
(* exactly the bundle name without an extension.                           *)
C6_KeepsDllElseBareName ==
    q_pc = "planned" =>
        IF q_ct.v \in {"Windows64", "Windows32"}
        THEN q_path[4] = q_name \o ".dll" /\ q_path[4] = q_basename
        ELSE q_path[4] = q_name

(* C6 (amended): the library is named <bundle name>.vst3 on the Windows    *)
(* targets, <bundle name>.so on the Linux targets, and exactly the bundle  *)
(* name without an extension on Mac64 only; it never keeps the name of the *)
(* build artifact.                                                         *)
C6_LibraryFileName ==
    q_pc = "planned" =>
        /\ q_ct.v \in {"Windows64", "Windows32"} => q_path[4] = q_name \o ".vst3"
        /\ q_ct.v \in {"Linux64", "Linux32"} => q_path[4] = q_name \o ".so"
        /\ q_ct.v = "Mac64" => q_path[4] = q_name
        /\ q_path[4] # q_basename
        /\ q_path[4] \notin {q_name \o ".dll", q_name \o ".dylib"}

C6_Witness == q_pc = "planned" /\ q_ct.v = "Windows64" /\ q_path[4] = q_name \o ".vst3"

(* C7: a run of bundle() that directly follows a run for the same package  *)
(* with the same flags, artifact and configuration ends as the first one   *)
(* did (so it succeeds when the first succeeded) and leaves the same       *)
(* directories and the same files with the same contents.                  *)
C7_Idempotent ==
    (pc = "ret" /\ prev.set /\ prev.package = package) =>
        (result = prev.result /\ dirs = prev.dirs /\ files = prev.files)

C7_Witness ==
    /\ pc = "ret" /\ prev.set /\ prev.package = package /\ prev.result = "ok"
    /\ result = "ok" /\ target = "Mac64" /\ "aux" \in Range(steps)
    /\ vst3_lib_path \in DOMAIN files

(* C8: the bundle name is the configured name when bundler.toml exists and *)
(* has an entry with a name for the package, else the package identifier;  *)
(* a missing bundler.toml is no error; the bundle root and the library     *)
(* file carry the bundle name and the artifact is looked up by the package *)
(* identifier.                                                             *)
ExpectedBundleName ==
    IF config.exists /\ config.parses /\ package \in DOMAIN config.table
       /\ config.table[package].some
    THEN config.table[package].v
    ELSE package

C8_BundleName ==
    InBundle =>
        /\ result # ConfigParseError => bundle_name = ExpectedBundleName
        /\ ~config.exists => result # ConfigParseError
        /\ vst3_lib_path # << >> =>
              /\ vst3_lib_path[3] = ExpectedBundleName \o ".vst3"
              /\ FileName(vst3_lib_path) \in {ExpectedBundleName, ExpectedBundleName \o ".so",
                                              ExpectedBundleName \o ".vst3"}
        /\ lib_path # << >> =>
              FileName(lib_path) \in {"lib" \o package \o ".so", "lib" \o package \o ".dylib",
                                      package \o ".dll"}

C8_Witness ==
    /\ InBundle /\ vst3_lib_path # << >> /\ bundle_name # package
    /\ vst3_lib_path[3] = bundle_name \o ".vst3" /\ vst3_lib_path \in DOMAIN files

(* C9: for a non-empty dest, dest[n] = 0 with n = min(len(dest) - 1,       *)
(* len(src)), dest[0..n) holds the first n bytes of src, the elements      *)
(* after n keep their values, the length of dest is unchanged and no       *)
(* access is out of range; an empty dest stays empty.                      *)
C9_Strlcpy ==
    s_pc = "done" =>
        /\ ~panicked
        /\ Len(dest) = Len(dest0)
        /\ Len(dest0) > 0 =>
              LET n == IF Len(dest0) - 1 <= Len(src) THEN Len(dest0) - 1 ELSE Len(src) IN
              /\ dest[n + 1] = 0
              /\ \A i \in 1..n : dest[i] % 256 = src[i] /\ dest[i] \in -128..127
              /\ \A i \in (n + 2)..Len(dest0) : dest[i] = dest0[i]

C9_Witness ==
    /\ s_pc = "done" /\ Len(src) > Len(dest0) /\ Len(dest0) = 2
    /\ dest0[2] # 0 /\ dest[2] = 0 /\ dest[1] = -61

(* C10: the steps of one run are a prefix of the fixed order; once the run *)
(* has a result no further step of it runs; a run that stops before the    *)
(* classification or the descriptor step has finished ends in an error;    *)
(* and the output tree changes only in a run whose build succeeded, whose  *)
(* target resolved, whose artifact exists at the expected path and was     *)
(* classified as a plugin.                                                 *)
StepOrder == <<"config", "args", "build", "resolve", "locate", "classify", "mkdir", "place", "aux">>

MayWriteBundle ==
    /\ result = "running"
    /\ CargoStatus(package)
    /\ cross_compile_target.some =>
          cross_compile_target.v \in {"x86_64-unknown-linux-gnu", "x86_64-apple-darwin",
                                      "x86_64-pc-windows-gnu"}
    /\ target \in CompilationTarget
    /\ lib_path \in CargoOutputs(package, other_args)
    /\ lib_path[Len(lib_path) - 1] = CargoProfile(other_args)
    /\ bundle_vst3 = "true"
    /\ IsPrefix(<<"config", "args", "build", "resolve", "locate", "classify">>, steps)

C10_StrictPipeline ==
    /\ [](IsPrefix(steps, StepOrder))
    /\ []((pc = "ret" /\ steps[Len(steps)] \notin {"classify", "aux"})
              => result \notin {"ok", "running"})
    /\ [][result # "running" => (steps' = steps \/ steps' = << >>)]_vars
    /\ [][(dirs' # dirs \/ files' # files) => MayWriteBundle]_vars

C10_Witness ==
    /\ pc = "ret" /\ steps = <<"config", "args", "build">> /\ result = "Could not build"
    /\ prev.set /\ DOMAIN files # {} /\ files = files0
====
